---- MODULE Spec2Model ----
(***************************************************************************)
(* Model of the LLM guard system: the denylist matcher                     *)
(* (SensitiveWordDetector) and the guarded completion pipeline             *)
(* (SafeLLMClient.safe_chat driven by LLMGuardSystem.process_request).     *)
(*                                                                         *)
(* A text is a sequence of characters.  A fixed message of the program is  *)
(* a one-element text whose single character is the message's name; the    *)
(* denylist alphabet never contains such a character.  Risk scores are     *)
(* counted in tenths (10 is the score 1.0).                                *)
(***************************************************************************)
EXTENDS Integers, Sequences, FiniteSets, TLC

\* ------------------------------------------------------------------ bounds
MaxTextLen == 2
MaxTermLen == 1
MaxTerms == 1
MaxExcLen == 1
ScanTextLen == 3
ScanTermLen == 2
ScanTerms == 2
MaxLineLen == 2
MaxFileLines == 1
MaxAddWords == 2
MaxListLen == 2

\* ---------------------------------------------------------------- alphabet
Alphabet == {"a", "A", " "}

RECURSIVE SeqsUpTo(_, _)
SeqsUpTo(S, n) ==
    IF n = 0 THEN {<< >>}
    ELSE LET shorter == SeqsUpTo(S, n - 1)
         IN  shorter \cup {Append(s, c) : s \in {t \in shorter : Len(t) = n - 1}, c \in S}

Texts == SeqsUpTo(Alphabet, MaxTextLen)

\* a denylist line after line.strip(): non-empty, no blank at either end
Stripped(t) == Len(t) > 0 /\ t[1] # " " /\ t[Len(t)] # " "

Terms == {t \in SeqsUpTo(Alphabet, MaxTermLen) : Stripped(t)}

Denylists == SeqsUpTo(Terms, MaxTerms)

ExcTexts == SeqsUpTo(Alphabet, MaxExcLen)

\* ---------------------------------------------------------- fixed messages
InputRefusedMsg == <<"MSG_INPUT_REFUSED">>

OutputFilteredMsg == <<"MSG_OUTPUT_FILTERED">>

ServiceUnavailableMsg == <<"MSG_SERVICE_UNAVAILABLE">>

SimpleChatErrorPrefix == <<"MSG_REQUEST_ERROR">>

ReasonNone == << >>

ReasonInputUnsafe == <<"REASON_INPUT_SENSITIVE">>

ReasonOutputUnsafe == <<"REASON_OUTPUT_SENSITIVE">>

ReasonApiFailedPrefix == <<"REASON_API_FAILED">>

RedactMarker == <<"[", "R", "]">>

\* ------------------------------------------------------- matching engine
Lower(c) == IF c = "A" THEN "a" ELSE IF c = "B" THEN "b" ELSE c

Fold(text, case_sensitive) ==
    IF case_sensitive THEN text ELSE [i \in 1..Len(text) |-> Lower(text[i])]

IsAlnum(c) == c \in {"a", "A", "b", "B", "R"}

\* term occupies text[i .. i+Len(term)-1]
OccursAt(term, text, i) ==
    /\ i >= 1
    /\ i + Len(term) - 1 <= Len(text)
    /\ SubSeq(text, i, i + Len(term) - 1) = term

\* the occurrence at i is a whole delimited word
WordBounded(term, text, i) ==
    /\ (i = 1 \/ ~IsAlnum(text[i - 1]))
    /\ (i + Len(term) > Len(text) \/ ~IsAlnum(text[i + Len(term)]))

MatchAt(term, text, i, match_type) ==
    /\ OccursAt(term, text, i)
    /\ (match_type = "word" => WordBounded(term, text, i))

Occurrences(term, text, match_type) ==
    {i \in 1..(Len(text) + 1) : MatchAt(term, text, i, match_type)}

Occurs(term, text) == Occurrences(term, text, "str") # {}

\* indexes of the configured terms that occur at least once
MatchedTerms(words, text, cfg) ==
    {k \in 1..Len(words) :
        Occurrences(Fold(words[k], cfg.case_sensitive),
                    Fold(text, cfg.case_sensitive), cfg.match_type) # {}}

RECURSIVE SumOver(_, _)
SumOver(f, S) ==
    IF S = {} THEN 0
    ELSE LET k == CHOOSE x \in S : TRUE IN f[k] + SumOver(f, S \ {k})

TotalOccurrences(words, text, cfg) ==
    SumOver([k \in 1..Len(words) |->
                Cardinality(Occurrences(Fold(words[k], cfg.case_sensitive),
                                        Fold(text, cfg.case_sensitive), cfg.match_type))],
            1..Len(words))

Detected(words, text, cfg) ==
    LET matched == MatchedTerms(words, text, cfg)
    IN  /\ matched # {}
        /\ (cfg.contains_all => matched = 1..Len(words))

Min(a, b) == IF a < b THEN a ELSE b

RiskOf(total) == Min(10, 3 + total)

\* one left-to-right pass: at the first position where a matched term
\* starts, emit the marker and continue after the span
RECURSIVE RedactFrom(_, _, _, _)
RedactFrom(words, text, cfg, i) ==
    IF i > Len(text) + 1 THEN << >>
    ELSE LET folded == Fold(text, cfg.case_sensitive)
             here == {k \in 1..Len(words) :
                        MatchAt(Fold(words[k], cfg.case_sensitive), folded, i, cfg.match_type)}
             rest == IF i > Len(text) THEN << >> ELSE <<text[i]>>
         IN  IF here = {}
             THEN rest \o RedactFrom(words, text, cfg, i + 1)
             ELSE LET k == CHOOSE x \in here : \A y \in here : x <= y
                  IN  IF Len(words[k]) = 0
                      THEN RedactMarker \o rest \o RedactFrom(words, text, cfg, i + 1)
                      ELSE RedactMarker \o RedactFrom(words, text, cfg, i + Len(words[k]))

RedactText(words, text, cfg) == RedactFrom(words, text, cfg, 1)

\* BanSubstrings.scan: (sanitized_text, is_valid, risk_score)
EngineScan(words, text, cfg) ==
    IF Detected(words, text, cfg)
    THEN [text  |-> IF cfg.redact THEN RedactText(words, text, cfg) ELSE text,
          safe  |-> FALSE,
          risk  |-> RiskOf(TotalOccurrences(words, text, cfg))]
    ELSE [text |-> text, safe |-> TRUE, risk |-> 0]

EngineCalled_Always(text) == TRUE

\* scan hands the text to the engine unless the text is empty
EngineCalled(text) == text # << >>

scan_InvertedValid(det, text, engine_fails) ==
    IF text = << >>
    THEN [text |-> text, safe |-> TRUE, risk |-> 0]
    ELSE IF engine_fails
         THEN [text |-> text, safe |-> FALSE, risk |-> 10]
         ELSE LET e == EngineScan(det.sensitive_words, text, det)
              IN  [e EXCEPT !.safe = ~e.safe]

scan_DropsSanitized(det, text, engine_fails) ==
    IF ~EngineCalled(text)
    THEN [text |-> text, safe |-> TRUE, risk |-> 0]
    ELSE IF engine_fails
         THEN [text |-> text, safe |-> FALSE, risk |-> 10]
         ELSE [EngineScan(det.sensitive_words, text, det) EXCEPT !.text = text]

\* SensitiveWordDetector.scan; engine_fails: the engine raises on this call
scan(det, text, engine_fails) ==
    IF ~EngineCalled(text)
    THEN [text |-> text, safe |-> TRUE, risk |-> 0]
    ELSE IF engine_fails
         THEN [text |-> text, safe |-> FALSE, risk |-> 10]
         ELSE EngineScan(det.sensitive_words, text, det)

\* ------------------------------------------------------------------ state
VARIABLES
    detector,       \* SafeLLMClient.sensitive_detector: NoDetector or its fields
    safety,         \* LLMGuardSystem.config["safety"]
    pc,             \* position of the request inside process_request / safe_chat
    user_message,   \* the text of the request being processed
    result,         \* the result dictionary of safe_chat
    provider,       \* what the completion provider did for this request
    trace,          \* what the request has done so far: calls and scans
    blocked_log,    \* number of entries written by _log_blocked_request
    probe,          \* the last direct call of SensitiveWordDetector.scan
    config,         \* the sensitive_detector section of the user's configuration
    hist,           \* how the denylist came to be: load outcome and last append
    inflight        \* a scan running in another thread, term by term

vars == <<detector, safety, pc, user_message, result, provider, trace, blocked_log, probe,
          config, hist, inflight>>

\* the state only the detector-level operations touch
detector_aux == <<config, hist, inflight>>

NoDetector == [none |-> TRUE]

MatcherConfigs ==
    [match_type : {"str", "word"}, case_sensitive : BOOLEAN,
     redact : BOOLEAN, contains_all : BOOLEAN]

\* SensitiveWordDetector.__init__ over a denylist file holding the lines words
NewDetector(words, m) ==
    [sensitive_words |-> words, match_type |-> m.match_type,
     case_sensitive |-> m.case_sensitive, redact |-> m.redact,
     contains_all |-> m.contains_all]

Detectors == {NewDetector(w, m) : w \in Denylists, m \in MatcherConfigs}

SafetyConfigs ==
    [check_input : BOOLEAN, check_output : BOOLEAN, log_blocked_requests : BOOLEAN]

NoResult == [none |-> TRUE]

NoProvider == [kind |-> "none", content |-> << >>, exc |-> << >>]

NoTrace ==
    [provider_calls |-> 0, input_scans |-> 0, output_scans |-> 0,
     input_fault |-> FALSE, output_fault |-> FALSE]

NoProbe == [none |-> TRUE]

NoConfig == [none |-> TRUE]

NoScan == [none |-> TRUE]

\* the denylist was loaded with outcome source and nothing was appended yet
LoadedHist(source) == [source |-> source, adds |-> 0, before |-> << >>, words |-> << >>]

\* ------------------------------------------------------- pieces of safe_chat
InitialResult(message) ==
    [original_input |-> message, input_safe |-> TRUE, input_risk_score |-> 0,
     sanitized_input |-> message, response |-> << >>, output_safe |-> TRUE,
     output_risk_score |-> 0, sanitized_output |-> << >>,
     blocked |-> FALSE, block_reason |-> ReasonNone]

InputChecked_IgnoreFlag(det, check_input) == det # NoDetector

InputChecked(det, check_input) == check_input /\ det # NoDetector

OutputChecked_IgnoreFlag(det, check_output) == det # NoDetector

OutputChecked(det, check_output) == check_output /\ det # NoDetector

InputStage_NoBlock(r, s) ==
    [r EXCEPT !.input_safe = s.safe,
              !.input_risk_score = s.risk,
              !.sanitized_input = s.text]

\* the result after the input stage, s being the scan of the user message
InputStage(r, s) ==
    LET scanned == [r EXCEPT !.input_safe = s.safe,
                             !.input_risk_score = s.risk,
                             !.sanitized_input = s.text]
    IN  IF ~s.safe
        THEN [scanned EXCEPT !.blocked = TRUE,
                             !.block_reason = ReasonInputUnsafe,
                             !.response = InputRefusedMsg]
        ELSE scanned

\* the early return of the input stage
InputNext_NoReturn(s) == "call"

InputNext(s) == IF s.safe THEN "call" ELSE "done"

OutputStage_KeepResponse(r, s) ==
    LET scanned == [r EXCEPT !.output_safe = s.safe,
                             !.output_risk_score = s.risk,
                             !.sanitized_output = s.text]
    IN  IF ~s.safe
        THEN [scanned EXCEPT !.blocked = TRUE,
                             !.block_reason = ReasonOutputUnsafe]
        ELSE scanned

\* the result after the output stage, s being the scan of the response
OutputStage(r, s) ==
    LET scanned == [r EXCEPT !.output_safe = s.safe,
                             !.output_risk_score = s.risk,
                             !.sanitized_output = s.text]
    IN  IF ~s.safe
        THEN [scanned EXCEPT !.blocked = TRUE,
                             !.block_reason = ReasonOutputUnsafe,
                             !.response = OutputFilteredMsg,
                             !.sanitized_output = s.text]
        ELSE scanned

ProviderFailed_BareReason(r, e) ==
    [r EXCEPT !.blocked = TRUE,
              !.block_reason = e,
              !.response = ServiceUnavailableMsg]

\* the except branch of safe_chat, e being str(e)
ProviderFailed(r, e) ==
    [r EXCEPT !.blocked = TRUE,
              !.block_reason = ReasonApiFailedPrefix \o e,
              !.response = ServiceUnavailableMsg]

\* the text QwenAPIClient.simple_chat returns when chat_completion raised e
SimpleChatErrorReply(e) == SimpleChatErrorPrefix \o e

\* ---------------------------------------------------------------- actions
Init ==
    /\ detector \in Detectors \cup {NoDetector}
    /\ safety \in SafetyConfigs
    /\ pc = "idle"
    /\ user_message = << >>
    /\ result = NoResult
    /\ provider = NoProvider
    /\ trace = NoTrace
    /\ blocked_log = 0
    /\ probe = NoProbe
    /\ config = NoConfig
    /\ hist = LoadedHist("ok")
    /\ inflight = NoScan

\* process_request reads the safety configuration and enters safe_chat,
\* which builds the initial result
process_request(user_input) ==
    /\ pc = "idle"
    /\ pc' = "input"
    /\ user_message' = user_input
    /\ result' = InitialResult(user_input)
    /\ provider' = NoProvider
    /\ trace' = NoTrace
    /\ UNCHANGED <<detector, safety, blocked_log, probe>>
    /\ UNCHANGED detector_aux

\* the input stage of safe_chat
CheckInput(engine_fails) ==
    /\ pc = "input"
    /\ IF InputChecked(detector, safety.check_input)
       THEN LET s == scan(detector, user_message, engine_fails)
            IN  /\ result' = InputStage(result, s)
                /\ trace' = [trace EXCEPT !.input_scans = @ + 1,
                                          !.input_fault = engine_fails /\ user_message # << >>]
                /\ pc' = InputNext(s)
       ELSE /\ ~engine_fails
            /\ pc' = "call"
            /\ UNCHANGED <<result, trace>>
    /\ UNCHANGED <<detector, safety, user_message, provider, blocked_log, probe>>
    /\ UNCHANGED detector_aux

\* safe_chat calls api_client.simple_chat and waits for it
CallProvider ==
    /\ pc = "call"
    /\ pc' = "waiting"
    /\ trace' = [trace EXCEPT !.provider_calls = @ + 1]
    /\ UNCHANGED <<detector, safety, user_message, result, provider, blocked_log, probe>>
    /\ UNCHANGED detector_aux

\* chat_completion returns a reply whose first choice holds content
ChatCompletionReturns(content) ==
    /\ pc = "waiting"
    /\ provider' = [kind |-> "returned", content |-> content, exc |-> << >>]
    /\ result' = [result EXCEPT !.response = content]
    /\ pc' = "output"
    /\ UNCHANGED <<detector, safety, user_message, trace, blocked_log, probe>>
    /\ UNCHANGED detector_aux

\* chat_completion raises (transport error, timeout of the transport, reply
\* without choices): QwenAPIClient.simple_chat catches it and returns a text
ChatCompletionRaises(e) ==
    /\ pc = "waiting"
    /\ provider' = [kind |-> "swallowed", content |-> << >>, exc |-> e]
    /\ result' = [result EXCEPT !.response = SimpleChatErrorReply(e)]
    /\ pc' = "output"
    /\ UNCHANGED <<detector, safety, user_message, trace, blocked_log, probe>>
    /\ UNCHANGED detector_aux

\* api_client.simple_chat itself raises (a client that does not catch)
SimpleChatRaises(e) ==
    /\ pc = "waiting"
    /\ provider' = [kind |-> "raised", content |-> << >>, exc |-> e]
    /\ result' = ProviderFailed(result, e)
    /\ pc' = "done"
    /\ UNCHANGED <<detector, safety, user_message, trace, blocked_log, probe>>
    /\ UNCHANGED detector_aux

\* the output stage of safe_chat
CheckOutput(engine_fails) ==
    /\ pc = "output"
    /\ IF OutputChecked(detector, safety.check_output)
       THEN LET s == scan(detector, result.response, engine_fails)
            IN  /\ result' = OutputStage(result, s)
                /\ trace' = [trace EXCEPT !.output_scans = @ + 1,
                                          !.output_fault = engine_fails /\ result.response # << >>]
       ELSE /\ ~engine_fails
            /\ UNCHANGED <<result, trace>>
    /\ pc' = "done"
    /\ UNCHANGED <<detector, safety, user_message, provider, blocked_log, probe>>
    /\ UNCHANGED detector_aux

\* safe_chat returns; process_request logs a blocked request and returns
Return ==
    /\ pc = "done"
    /\ pc' = "idle"
    /\ blocked_log' = IF result.blocked /\ safety.log_blocked_requests
                      THEN 1 ELSE 0
    /\ user_message' = << >>
    /\ result' = NoResult
    /\ provider' = NoProvider
    /\ trace' = NoTrace
    /\ UNCHANGED <<detector, safety, probe>>
    /\ UNCHANGED detector_aux

Next ==
    \/ \E t \in Texts : process_request(t)
    \/ \E f \in BOOLEAN : CheckInput(f)
    \/ CallProvider
    \/ \E t \in Texts : ChatCompletionReturns(t)
    \/ \E e \in ExcTexts : ChatCompletionRaises(e)
    \/ \E e \in ExcTexts : SimpleChatRaises(e)
    \/ \E f \in BOOLEAN : CheckOutput(f)
    \/ Return

Spec == Init /\ [][Next]_vars

TypeOK ==
    /\ pc \in {"idle", "input", "call", "waiting", "output", "done"}
    /\ trace.provider_calls \in 0..1

\* the steps the program takes by itself are taken eventually; the arrival
\* of a request and the provider's answer are not
FairSpec ==
    /\ Spec
    /\ WF_vars(\E f \in BOOLEAN : CheckInput(f))
    /\ WF_vars(CallProvider)
    /\ WF_vars(\E f \in BOOLEAN : CheckOutput(f))
    /\ WF_vars(Return)

\* ------------------------------------------- direct calls of the detector
ScanTexts == SeqsUpTo(Alphabet, ScanTextLen)

ScanTermSet == {t \in SeqsUpTo(Alphabet, ScanTermLen) : Stripped(t)}

ScanDenylists == SeqsUpTo(ScanTermSet, ScanTerms)

ScanDetectors == {NewDetector(w, m) : w \in ScanDenylists, m \in MatcherConfigs}

ScanInit ==
    /\ detector \in ScanDetectors
    /\ safety = [check_input |-> TRUE, check_output |-> TRUE, log_blocked_requests |-> TRUE]
    /\ pc = "idle"
    /\ user_message = << >>
    /\ result = NoResult
    /\ provider = NoProvider
    /\ trace = NoTrace
    /\ blocked_log = 0
    /\ probe = NoProbe
    /\ config = NoConfig
    /\ hist = LoadedHist("ok")
    /\ inflight = NoScan

\* a caller scans text with the detector
Probe(text, engine_fails) ==
    /\ probe = NoProbe
    /\ probe' = [text |-> text, engine_fails |-> engine_fails /\ text # << >>,
                 out |-> scan(detector, text, engine_fails),
                 armed |-> engine_fails, engine_called |-> EngineCalled(text),
                 rescan |-> FALSE, first |-> text, first_failed |-> FALSE]
    /\ UNCHANGED <<detector, safety, pc, user_message, result, provider, trace, blocked_log>>
    /\ UNCHANGED detector_aux

ScanNext == \E t \in ScanTexts, f \in BOOLEAN : Probe(t, f)

ScanSpec == ScanInit /\ [][ScanNext]_vars

\* ------------------------------------------------------- the live detector
LineAlphabet == {"a", " "}

AddTerms == {<< >>, <<"a">>, <<"[">>}

RawLines == SeqsUpTo(LineAlphabet, MaxLineLen)

MissingFile == [exists |-> FALSE, readable |-> FALSE, lines |-> << >>]

UnreadableFile == [exists |-> TRUE, readable |-> FALSE, lines |-> << >>]

Files ==
    {[exists |-> TRUE, readable |-> TRUE, lines |-> l] : l \in SeqsUpTo(RawLines, MaxFileLines)}
        \cup {MissingFile, UnreadableFile}

RECURSIVE StripLeft(_)
StripLeft(t) == IF t # << >> /\ t[1] = " " THEN StripLeft(Tail(t)) ELSE t

RECURSIVE StripRight(_)
StripRight(t) ==
    IF t # << >> /\ t[Len(t)] = " " THEN StripRight(SubSeq(t, 1, Len(t) - 1)) ELSE t

\* str.strip()
strip(t) == StripRight(StripLeft(t))

\* [line.strip() for line in f if line.strip()]
RECURSIVE StrippedLines(_)
StrippedLines(lines) ==
    IF lines = << >> THEN << >>
    ELSE (IF strip(Head(lines)) # << >> THEN <<strip(Head(lines))>> ELSE << >>)
            \o StrippedLines(Tail(lines))

load_sensitive_words_DefaultOnMissing(file) ==
    IF ~file.exists THEN <<<<"a">>>>
    ELSE IF ~file.readable THEN << >>
    ELSE StrippedLines(file.lines)

\* SensitiveWordDetector._load_sensitive_words
load_sensitive_words(file) ==
    IF ~file.exists THEN << >>
    ELSE IF ~file.readable THEN << >>
    ELSE StrippedLines(file.lines)

LoadOutcome(file) ==
    IF ~file.exists THEN "missing" ELSE IF ~file.readable THEN "unreadable" ELSE "ok"

DetectorInit ==
    /\ \E file \in Files, m \in MatcherConfigs :
          /\ detector = NewDetector(load_sensitive_words(file), m)
          /\ hist = LoadedHist(LoadOutcome(file))
    /\ safety = [check_input |-> TRUE, check_output |-> TRUE, log_blocked_requests |-> TRUE]
    /\ pc = "idle"
    /\ user_message = << >>
    /\ result = NoResult
    /\ provider = NoProvider
    /\ trace = NoTrace
    /\ blocked_log = 0
    /\ probe = NoProbe
    /\ config = NoConfig
    /\ inflight = NoScan

Extended_Replace(list, words) == words

\* list.extend(words)
Extended(list, words) == list \o words

\* add_sensitive_words: the list object the scanner was built over is
\* extended in place and a new scanner is built over the same list; nothing
\* is locked, so the call can run while a scan of another thread is in flight
add_sensitive_words(words) ==
    /\ probe = NoProbe
    /\ Len(detector.sensitive_words) + Len(words) <= MaxListLen
    /\ detector' = [detector EXCEPT !.sensitive_words = Extended(@, words)]
    /\ hist' = [hist EXCEPT !.adds = 1, !.before = detector.sensitive_words,
                            !.words = words]
    /\ UNCHANGED <<safety, pc, user_message, result, provider, trace, blocked_log,
                   probe, config, inflight>>

\* the caller scans the processed text of the previous scan
Reprobe(engine_fails) ==
    /\ probe # NoProbe
    /\ ~probe.rescan
    /\ probe' = [text |-> probe.out.text,
                 engine_fails |-> engine_fails /\ probe.out.text # << >>,
                 out |-> scan(detector, probe.out.text, engine_fails),
                 armed |-> engine_fails, engine_called |-> EngineCalled(probe.out.text),
                 rescan |-> TRUE, first |-> probe.text,
                 first_failed |-> probe.engine_fails]
    /\ UNCHANGED <<detector, safety, pc, user_message, result, provider, trace, blocked_log>>
    /\ UNCHANGED detector_aux

\* the caller drops the result
Forget ==
    /\ probe # NoProbe
    /\ probe' = NoProbe
    /\ UNCHANGED <<detector, safety, pc, user_message, result, provider, trace, blocked_log>>
    /\ UNCHANGED detector_aux

DetectorNext ==
    \/ \E w \in SeqsUpTo(AddTerms, MaxAddWords) : add_sensitive_words(w)
    \/ \E t \in Texts, f \in BOOLEAN : Probe(t, f)
    \/ \E f \in BOOLEAN : Reprobe(f)
    \/ Forget

DetectorSpec == DetectorInit /\ [][DetectorNext]_vars

\* ----------------------------------------------------------------- claims
Returned == pc = "done"

IsProviderError(reason) == Len(reason) >= 1 /\ reason[1] = ReasonApiFailedPrefix[1]

\* the text the output stage received from simple_chat
RawReply ==
    IF provider.kind = "swallowed" THEN SimpleChatErrorReply(provider.exc)
    ELSE provider.content

\* C1: once the input scan has judged the user text unsafe, the request is
\* finished with blocked = true, block_reason = InputUnsafe and the fixed
\* refusal as response; the provider has been called zero times and
\* output_safe / output_risk_score still hold their initial values.
C1_InputBlockShortCircuits ==
    (result # NoResult /\ ~result.input_safe) =>
        /\ pc = "done"
        /\ result.blocked
        /\ result.block_reason = ReasonInputUnsafe
        /\ result.response = InputRefusedMsg
        /\ trace.provider_calls = 0
        /\ provider = NoProvider
        /\ result.output_safe
        /\ result.output_risk_score = 0

C1_Witness ==
    /\ Returned
    /\ ~result.input_safe
    /\ trace.input_scans = 1
    /\ ~trace.input_fault
    /\ user_message = <<"a", " ">>

\* C2: every failure of the provider call, those raised inside
\* chat_completion / simple_chat included, ends in a returned result with
\* blocked = true, block_reason = ProviderError and the fixed
\* service-unavailable message as response.
C2_ProviderFailureBlocks ==
    (Returned /\ provider.kind \in {"swallowed", "raised"}) =>
        /\ result.blocked
        /\ IsProviderError(result.block_reason)
        /\ result.response = ServiceUnavailableMsg

\* C3: when the input passed and the output scan judged the reply unsafe,
\* the returned result has input_safe = true, output_safe = false,
\* blocked = true, block_reason = OutputUnsafe and the fixed
\* filtered-content message as response instead of the provider's text.
C3_OutputBlock ==
    (Returned /\ trace.output_scans = 1 /\ ~result.output_safe) =>
        /\ result.input_safe
        /\ result.blocked
        /\ result.block_reason = ReasonOutputUnsafe
        /\ result.response = OutputFilteredMsg
        /\ result.response # RawReply

C3_Witness ==
    /\ Returned
    /\ ~result.output_safe
    /\ trace.input_scans = 1
    /\ provider.kind = "returned"
    /\ ~trace.output_fault
    /\ Occurs(<<"a">>, provider.content)

\* C4: when the output scan judged the reply unsafe, neither response nor
\* sanitized_output of the returned result carries the raw reply, whatever
\* the matcher configuration.
C4_NoRawUnsafeText ==
    (Returned /\ trace.output_scans = 1 /\ ~result.output_safe) =>
        /\ ~Occurs(RawReply, result.response)
        /\ ~Occurs(RawReply, result.sanitized_output)

\* C5: in every returned result, blocked = true exactly when block_reason
\* is not the empty value.
C5_BlockedIffReason ==
    Returned => (result.blocked <=> result.block_reason # ReasonNone)

C5_Witness ==
    /\ Returned
    /\ result.blocked
    /\ provider.kind = "raised"
    /\ provider.exc = << >>

\* C6: after a failure of the provider, neither response nor block_reason of
\* the returned result contains the text of the exception.
C6_NoExceptionText ==
    (Returned /\ provider.kind \in {"swallowed", "raised"} /\ provider.exc # << >>) =>
        /\ ~Occurs(provider.exc, result.response)
        /\ ~Occurs(provider.exc, result.block_reason)

\* C7: when the provider call succeeded and the output check is disabled or
\* judged the reply safe, the returned result has blocked = false,
\* output_safe = true and response equal to the provider's text.
C7_SafeReplyPassesThrough ==
    (/\ Returned
     /\ provider.kind = "returned"
     /\ (~safety.check_output \/ result.output_safe)) =>
        /\ ~result.blocked
        /\ result.output_safe
        /\ result.response = provider.content

C7_Witness ==
    /\ Returned
    /\ provider.kind = "returned"
    /\ provider.content = <<"a", "A">>
    /\ detector # NoDetector
    /\ ~safety.check_output
    /\ Detected(detector.sensitive_words, provider.content, detector)

\* C8: with input checking disabled the matcher is never run on the user
\* text, the result keeps input_safe = true, input_risk_score = 0.0 and
\* sanitized_input = the original text, and the request does not finish
\* without the provider having been invoked.
C8_InputCheckDisabled ==
    (result # NoResult /\ ~safety.check_input) =>
        /\ trace.input_scans = 0
        /\ result.input_safe
        /\ result.input_risk_score = 0
        /\ result.sanitized_input = user_message
        /\ result.original_input = user_message
        /\ (pc \in {"waiting", "output", "done"} => trace.provider_calls = 1)

C8_Witness ==
    /\ Returned
    /\ ~safety.check_input
    /\ detector # NoDetector
    /\ Detected(detector.sensitive_words, user_message, detector)
    /\ trace.provider_calls = 1
    /\ provider.kind = "returned"

\* C9: a request that waits for the provider always reaches Done, even when
\* the provider never returns.
C9_WaitingTerminates == (pc = "waiting") ~> (pc = "done")

ContainsTerm == MatchedTerms(detector.sensitive_words, probe.text, detector) # {}

\* C11 (as stated): in disjunctive mode a text that contains at least one
\* term of the denylist is scanned unsafe with a risk score above 0.0, and
\* with redact = true the processed text contains the redaction marker.
C11_TermMeansUnsafe ==
    (probe # NoProbe /\ ~detector.contains_all /\ ContainsTerm) =>
        /\ ~probe.out.safe
        /\ probe.out.risk > 0
        /\ (detector.redact => Occurs(RedactMarker, probe.out.text))

\* C11 (amended): in disjunctive mode a non-empty text that contains at
\* least one term of the denylist is scanned unsafe with a risk score above
\* 0.0, and with redact = true the processed text contains the redaction
\* marker unless the matching engine failed on the text.
C11_NonEmptyTermMeansUnsafe ==
    (probe # NoProbe /\ ~detector.contains_all /\ ContainsTerm /\ probe.text # << >>) =>
        /\ ~probe.out.safe
        /\ probe.out.risk > 0
        /\ ((detector.redact /\ ~probe.engine_fails) =>
                Occurs(RedactMarker, probe.out.text))

C11_Witness ==
    /\ probe # NoProbe
    /\ ~probe.rescan
    /\ ~probe.engine_fails
    /\ ~detector.contains_all
    /\ detector.redact
    /\ detector.match_type = "word"
    /\ detector.sensitive_words = <<<<"a">>>>
    /\ probe.text = <<" ", "A">>
    /\ probe.out.text = <<" ">> \o RedactMarker

\* the positions of the terms appended by the last add_sensitive_words call
NewTermIndexes == (Len(hist.before) + 1)..Len(detector.sensitive_words)

\* C12: after add_sensitive_words(words) the live denylist is the previous
\* list followed by words in order, its length has grown by len(words) with
\* duplicates kept, and a later scan of a text containing one of the new
\* terms matches it; this holds after every sequence of calls.
C12_AppendTakesEffect ==
    (hist.adds = 1) =>
        /\ detector.sensitive_words = hist.before \o hist.words
        /\ Len(detector.sensitive_words) = Len(hist.before) + Len(hist.words)
        /\ \A k \in 1..Len(hist.words) :
              detector.sensitive_words[Len(hist.before) + k] = hist.words[k]
        /\ (/\ probe # NoProbe
            /\ probe.text # << >>
            /\ ~probe.engine_fails
            /\ ~detector.contains_all
            /\ NewTermIndexes \cap
                  MatchedTerms(detector.sensitive_words, probe.text, detector) # {})
              => ~probe.out.safe

C12_Witness ==
    /\ hist.adds = 1
    /\ hist.before = <<<<"a", "a">>>>
    /\ hist.words = <<<<"a">>>>
    /\ probe # NoProbe
    /\ ~probe.rescan
    /\ ~probe.engine_fails
    /\ ~detector.contains_all
    /\ probe.text = <<"A", " ">>
    /\ ~probe.out.safe

NonBlank(t) == \E i \in 1..Len(t) : t[i] # " "

\* C20: in every reachable state of a detector every term of the live
\* denylist is a non-empty string that is not only whitespace.
C20_TermsNonBlank ==
    \A k \in 1..Len(detector.sensitive_words) : NonBlank(detector.sensitive_words[k])

\* C14: with redact = true and a denylist of non-blank terms, the scan of
\* the processed text of a scan is safe (the engine having failed on
\* neither scan).
C14_RescanIsSafe ==
    (/\ probe # NoProbe
     /\ C20_TermsNonBlank
     /\ probe.rescan
     /\ detector.redact
     /\ ~probe.first_failed
     /\ ~probe.engine_fails) => probe.out.safe

\* C15 (as stated): with an empty denylist, the fallback after a missing or
\* unreadable file included, every scan is safe with risk score 0.0 under
\* every matcher configuration.
C15_EmptyDenylistSafe ==
    /\ (hist.source \in {"missing", "unreadable"} /\ hist.adds = 0) =>
            detector.sensitive_words = << >>
    /\ (probe # NoProbe /\ detector.sensitive_words = << >>) =>
            (probe.out.safe /\ probe.out.risk = 0)

\* C15 (amended): with an empty denylist, the fallback after a missing or
\* unreadable file included, every scan on which the matching engine does
\* not fail is safe with risk score 0.0 under every matcher configuration.
C15_EmptyDenylistSafeNoFault ==
    /\ (hist.source \in {"missing", "unreadable"} /\ hist.adds = 0) =>
            detector.sensitive_words = << >>
    /\ (probe # NoProbe /\ detector.sensitive_words = << >> /\ ~probe.engine_fails) =>
            (probe.out.safe /\ probe.out.risk = 0 /\ probe.out.text = probe.text)

C15_Witness ==
    /\ hist.source = "missing"
    /\ detector.sensitive_words = << >>
    /\ detector.contains_all
    /\ probe # NoProbe
    /\ ~probe.engine_fails
    /\ probe.text = <<"a", "A">>
    /\ probe.out.safe

\* C16: the scan of the empty text returns the empty text, safe, with risk
\* score 0.0, for every denylist and configuration, and the matching engine
\* is not invoked (so also when it would fail or would flag the text).
C16_EmptyTextSafe ==
    (probe # NoProbe /\ probe.text = << >>) =>
        /\ probe.out = [text |-> << >>, safe |-> TRUE, risk |-> 0]
        /\ ~probe.engine_called

C16_Witness ==
    /\ probe # NoProbe
    /\ probe.text = << >>
    /\ ~probe.rescan
    /\ probe.armed
    /\ \E i \in 1..Len(detector.sensitive_words) : detector.sensitive_words[i] = << >>
    /\ probe.out.safe

\* C17: when the matching engine fails on a non-empty user message, the
\* input scan returns the fail-closed result (the message unredacted, unsafe,
\* risk score 1.0) instead of raising, and the request is blocked as an
\* unsafe input without the provider being called.
C17_EngineFailureFailsClosed ==
    trace.input_fault =>
        /\ result # NoResult
        /\ ~result.input_safe
        /\ result.input_risk_score = 10
        /\ result.sanitized_input = user_message
        /\ result.blocked
        /\ result.block_reason = ReasonInputUnsafe
        /\ result.response = InputRefusedMsg
        /\ pc = "done"
        /\ trace.provider_calls = 0
        /\ provider = NoProvider

C17_Witness ==
    /\ trace.input_fault
    /\ pc = "done"
    /\ result.blocked
    /\ user_message # << >>
    /\ ~Detected(detector.sensitive_words, user_message, detector)

\* the steps of one request are in order and none is repeated
C19_StepsInOrder ==
    /\ trace.provider_calls <= 1
    /\ trace.input_scans <= 1
    /\ trace.output_scans <= 1
    /\ pc \in {"idle", "input", "call"} =>
            (trace.provider_calls = 0 /\ trace.output_scans = 0)
    /\ pc = "idle" => trace.input_scans = 0
    /\ pc \in {"waiting", "output"} =>
            (trace.provider_calls = 1 /\ trace.output_scans = 0)
    /\ trace.provider_calls = 1 => (trace.input_scans = 0 \/ result.input_safe)
    /\ trace.output_scans = 1 => trace.provider_calls = 1

\* C19: within one request the steps occur in the order input check,
\* provider call, output check; the provider is called at most once and only
\* after the input check passed or was skipped; the output scan runs only
\* after a successful provider call, never after a provider failure or an
\* input block.
C19_OrderAndOutputScanAfterSuccess ==
    /\ C19_StepsInOrder
    /\ trace.output_scans = 1 => provider.kind = "returned"

\* ------------------------------------------------------ the configuration
\* A dictionary entry is the set of its values: {} when the key is missing.
MatchTypeValues == {"str", "word", "substring", "token"}

Optional(values) == {{}} \cup {{v} : v \in values}

\* the sensitive_detector section a user can write
UserSections ==
    [match_type : Optional(MatchTypeValues), case_sensitive : Optional(BOOLEAN),
     redact : Optional(BOOLEAN), contains_all : Optional(BOOLEAN),
     require_all_terms : Optional(BOOLEAN)]

EmptySection ==
    [match_type |-> {}, case_sensitive |-> {}, redact |-> {}, contains_all |-> {},
     require_all_terms |-> {}]

\* default_config["sensitive_detector"] of _load_config
DefaultSection ==
    [match_type |-> {"str"}, case_sensitive |-> {FALSE}, redact |-> {TRUE},
     contains_all |-> {FALSE}, require_all_terms |-> {}]

ConfigFiles ==
    {[exists |-> TRUE, valid |-> TRUE, section |-> u] : u \in UserSections}
        \cup {[exists |-> FALSE, valid |-> FALSE, section |-> EmptySection],
              [exists |-> TRUE, valid |-> FALSE, section |-> EmptySection]}

\* dict.update: the keys of the user's section replace the defaults
Update(defaults, user) ==
    [k \in DOMAIN defaults |-> IF user[k] # {} THEN user[k] ELSE defaults[k]]

\* LLMGuardSystem._load_config, the sensitive_detector section of its result
load_config(file) ==
    IF file.exists /\ file.valid
    THEN Update(DefaultSection, file.section)
    ELSE DefaultSection

\* dict.get(key, default)
Get(entry, default) == IF entry = {} THEN default ELSE CHOOSE v \in entry : TRUE

create_detector_AcceptsSubstring(section, words) ==
    NewDetector(words,
        [match_type |-> IF Get(section.match_type, "str") \in {"str", "substring"}
                        THEN "str" ELSE "word",
         case_sensitive |-> Get(section.case_sensitive, FALSE),
         redact |-> Get(section.redact, TRUE),
         contains_all |-> Get(section.contains_all, FALSE)])

\* create_detector over a denylist file holding the terms words
create_detector(section, words) ==
    NewDetector(words,
        [match_type |-> IF Get(section.match_type, "str") = "str" THEN "str" ELSE "word",
         case_sensitive |-> Get(section.case_sensitive, FALSE),
         redact |-> Get(section.redact, TRUE),
         contains_all |-> Get(section.contains_all, FALSE)])

ConfigInit ==
    /\ detector = NoDetector
    /\ config = NoConfig
    /\ safety = [check_input |-> TRUE, check_output |-> TRUE, log_blocked_requests |-> TRUE]
    /\ pc = "idle"
    /\ user_message = << >>
    /\ result = NoResult
    /\ provider = NoProvider
    /\ trace = NoTrace
    /\ blocked_log = 0
    /\ probe = NoProbe
    /\ hist = LoadedHist("ok")
    /\ inflight = NoScan

\* LLMGuardSystem.__init__ reads the configuration file
LoadConfig(file) ==
    /\ config = NoConfig
    /\ config' = [via |-> "file", section |-> load_config(file),
                  written |-> IF file.exists /\ file.valid THEN file.section
                              ELSE EmptySection]
    /\ UNCHANGED <<detector, safety, pc, user_message, result, provider, trace,
                   blocked_log, probe, hist, inflight>>

\* a caller hands its own dictionary to create_detector
DirectConfig(section) ==
    /\ config = NoConfig
    /\ config' = [via |-> "direct", section |-> section, written |-> section]
    /\ UNCHANGED <<detector, safety, pc, user_message, result, provider, trace,
                   blocked_log, probe, hist, inflight>>

\* the detector is created from the dictionary
CreateDetector(file) ==
    /\ config # NoConfig
    /\ detector = NoDetector
    /\ detector' = create_detector(config.section, load_sensitive_words(file))
    /\ hist' = LoadedHist(LoadOutcome(file))
    /\ UNCHANGED <<safety, pc, user_message, result, provider, trace, blocked_log,
                   probe, config, inflight>>

ConfigNext ==
    \/ \E file \in ConfigFiles : LoadConfig(file)
    \/ \E section \in UserSections : DirectConfig(section)
    \/ \E file \in Files : CreateDetector(file)

ConfigSpec == ConfigInit /\ [][ConfigNext]_vars

\* C18 (as stated): match_type "substring" yields Substring mode, "token"
\* yields Token mode, a missing match_type yields Substring mode, and
\* require_all_terms = true yields a conjunctive matcher.
C18_SpecVocabulary ==
    (config # NoConfig /\ detector # NoDetector) =>
        /\ config.written.match_type = {"substring"} => detector.match_type = "str"
        /\ config.written.match_type = {"token"} => detector.match_type = "word"
        /\ config.written.match_type = {} => detector.match_type = "str"
        /\ config.written.require_all_terms = {TRUE} => detector.contains_all

\* C18 (amended): match_type "str" yields Substring mode, every other value
\* ("word", and "substring" and "token" too) yields Token mode, a missing
\* match_type yields Substring mode; contains_all = true yields a conjunctive
\* matcher, and without it the matcher is disjunctive whatever
\* require_all_terms says.
C18_CodeVocabulary ==
    (config # NoConfig /\ detector # NoDetector) =>
        /\ config.written.match_type = {"str"} => detector.match_type = "str"
        /\ config.written.match_type \notin {{}, {"str"}} => detector.match_type = "word"
        /\ config.written.match_type = {} => detector.match_type = "str"
        /\ detector.contains_all <=> config.written.contains_all = {TRUE}

C18_Witness ==
    /\ config # NoConfig
    /\ detector # NoDetector
    /\ config.via = "file"
    /\ config.written.match_type = {"substring"}
    /\ config.written.require_all_terms = {TRUE}
    /\ config.written.contains_all = {}
    /\ detector.match_type = "word"
    /\ ~detector.contains_all

\* ------------------------------------------- scans in flight on another thread
\* scan enters the engine, which walks the list object the scanner was built
\* over; start is the content of that list at this moment
BeginScan(text) ==
    /\ inflight = NoScan
    /\ probe = NoProbe
    /\ EngineCalled(text)
    /\ inflight' = [text |-> text, start |-> detector.sensitive_words,
                    seen |-> << >>, done |-> FALSE, out |-> NoResult]
    /\ UNCHANGED <<detector, safety, pc, user_message, result, provider, trace,
                   blocked_log, probe, config, hist>>

\* the engine reads the next term of the list
ReadTerm ==
    /\ inflight # NoScan
    /\ ~inflight.done
    /\ Len(inflight.seen) < Len(detector.sensitive_words)
    /\ inflight' = [inflight EXCEPT
                        !.seen = Append(@, detector.sensitive_words[Len(@) + 1])]
    /\ UNCHANGED <<detector, safety, pc, user_message, result, provider, trace,
                   blocked_log, probe, config, hist>>

\* the engine has reached the end of the list and scan returns
EndScan(engine_fails) ==
    /\ inflight # NoScan
    /\ ~inflight.done
    /\ Len(inflight.seen) >= Len(detector.sensitive_words)
    /\ inflight' = [inflight EXCEPT
                        !.done = TRUE,
                        !.out = scan([detector EXCEPT !.sensitive_words = inflight.seen],
                                     inflight.text, engine_fails)]
    /\ UNCHANGED <<detector, safety, pc, user_message, result, provider, trace,
                   blocked_log, probe, config, hist>>

\* the scanning thread drops the result
ForgetScan ==
    /\ inflight # NoScan
    /\ inflight.done
    /\ inflight' = NoScan
    /\ UNCHANGED <<detector, safety, pc, user_message, result, provider, trace,
                   blocked_log, probe, config, hist>>

ConcNext ==
    \/ \E w \in SeqsUpTo(AddTerms, MaxAddWords) : add_sensitive_words(w)
    \/ \E t \in Texts : BeginScan(t)
    \/ ReadTerm
    \/ \E f \in BOOLEAN : EndScan(f)
    \/ ForgetScan

ConcSpec == DetectorInit /\ [][ConcNext]_vars

\* seen is an initial part of list
IsPrefix(seen, list) ==
    /\ Len(seen) <= Len(list)
    /\ \A i \in 1..Len(seen) : seen[i] = list[i]

====
